---- MODULE Spec2Model ----
(***************************************************************************)
(* A model of tools/silver_bullet_notifications.py: the session calendar,  *)
(* the polling scheduler, the message ledger file and the daily cleanup    *)
(* gate, as one process (main) that the supervisor starts again after it   *)
(* exits.                                                                  *)
(*                                                                         *)
(* Time is counted in whole seconds of UTC since 2024-01-01 00:00 UTC.     *)
(* An aware datetime is a record [utc, off]: the instant and the zone's    *)
(* offset, as pytz keeps them; its wall clock is utc + off.  Aware         *)
(* datetimes compare and subtract by their instants, as in Python.  The    *)
(* horizon of the model lies in January, where New York is at UTC-5 and    *)
(* Moscow at UTC+3 throughout; the machine's own zone is UTC.              *)
(* Text (the ledger file, the marker file, "HH:MM") is a sequence of       *)
(* one-character strings.                                                  *)
(***************************************************************************)
EXTENDS Integers, Sequences, FiniteSets, TLC

VARIABLES
    definitions,    \* the session definitions a lone call of get_next_sessions reads
    credentials,    \* TELEGRAM_BOT_TOKEN and TELEGRAM_CHAT_ID are both set
    lossy,          \* the environment: which sendMessage requests fail, by their number
    unstorable,     \* the environment: after which requests the message_id cannot be stored
    now,            \* the clock, seconds of UTC
    pc,             \* where main is; "idle" when no process runs
    run,            \* how many times the process has been started
    today_str,      \* main's today_str
    end_time,       \* main's end_time
    next_sessions,  \* what that lone call of get_next_sessions returned
    message_ids,    \* clear_chat_history's message_ids
    idx,            \* how many of reversed(message_ids) the loop has taken
    deleted_count,  \* clear_chat_history's deleted_count
    failed_count,   \* clear_chat_history's failed_count
    ledgerFile,     \* MESSAGES_FILE: [exists, data]
    markerFile,     \* LAST_CLEANUP_FILE: [exists, data]
    nextId,         \* the message_id the provider assigns next
    calls,          \* sendMessage requests made so far
    ticks,          \* iterations of the polling loop this run has finished
    exitKind,       \* how this run of main ended, "none" while it runs
    exitLog,        \* history: how each run of main ended
    runLog,         \* history: the calls of send_telegram_message of this run
    recLog,         \* history: the identifiers written to the ledger
    delLog,         \* history: the identifiers passed to delete_telegram_message
    gateLog,        \* history: each startup's date and whether it ran the cleanup
    faultLog,       \* history: the file faults and kills that struck a startup
    markedBy        \* history: the run that wrote the marker file, 0 while none has

vars == <<definitions, credentials, lossy, unstorable, now, pc, run, today_str, end_time, next_sessions,
          message_ids, idx, deleted_count, failed_count, ledgerFile, markerFile,
          nextId, calls, ticks, exitKind, exitLog, runLog, recLog, delLog,
          gateLog, faultLog, markedBy>>

(***************************************************************************)
(* Bounds of the model.                                                    *)
(***************************************************************************)
\* Starts of the process the model follows.
MaxRuns == 3
\* An interrupt or a loop error strikes within this many ticks of a run.
StopWindow == 1
\* Seconds between one exit of the process and the supervisor's next start.
RestartDelay == 300
\* The first message_id the provider hands out (so that ids of one and of two digits occur).
FirstMessageId == 9
\* Session definitions in a configuration drawn for get_next_sessions.
MaxSessions == 2
\* Ticks at the start of a run that take longer than the poll period, where ticks drift.
SlowTicks == 60
\* File faults and kills that strike the startups of one behaviour.
MaxFaults == 1
\* Ticks of a run that are followed where startups are struck by faults.
TicksFollowed == 2

(***************************************************************************)
(* Program constants.                                                      *)
(***************************************************************************)
\* time.sleep(60) in main's loop
POLL_SECONDS == 60
\* the upper end of "0 <= time_diff <= 60"
WINDOW_SECONDS == 60
\* timedelta(hours=23, minutes=30)
RUN_SECONDS == (23 * 60 + 30) * 60

SecondsPerMinute == 60 * 1
SecondsPerHour == 60 * 60
SecondsPerDay == 24 * 60 * 60

\* pytz's offsets for America/New_York (EST) and Europe/Moscow in the model's horizon
NY_TZ == 0 - 5 * SecondsPerHour
UTC3_TZ == 3 * SecondsPerHour
\* the zone of the machine: datetime.date.today() and datetime.datetime.now()
LOCAL_TZ == 0 * SecondsPerHour

(***************************************************************************)
(* Text.                                                                   *)
(***************************************************************************)
DIGITS == <<"0", "1", "2", "3", "4", "5", "6", "7", "8", "9">>

WHITESPACE == {" ", "\n", "\t", "\r"}

DigitValue(c) == CHOOSE d \in 0..9 : DIGITS[d + 1] = c

\* str(n) for n >= 0, as an f-string formats an int
RECURSIVE FormatInt(_)
FormatInt(n) ==
    IF n < 10 THEN <<DIGITS[n + 1]>>
    ELSE FormatInt(n \div 10) \o <<DIGITS[(n % 10) + 1]>>

\* int(s) of a string of digits
RECURSIVE ParseInt(_)
ParseInt(s) ==
    IF Len(s) = 0 THEN 0
    ELSE 10 * ParseInt(SubSeq(s, 1, Len(s) - 1)) + DigitValue(s[Len(s)])

\* n as two digits, the %m and %d of isoformat
Pad2(n) == <<DIGITS[(n \div 10) + 1], DIGITS[(n % 10) + 1]>>

RECURSIVE LStrip(_)
LStrip(s) ==
    IF Len(s) > 0 /\ Head(s) \in WHITESPACE THEN LStrip(Tail(s)) ELSE s

RECURSIVE RStrip(_)
RStrip(s) ==
    IF Len(s) > 0 /\ s[Len(s)] \in WHITESPACE
    THEN RStrip(SubSeq(s, 1, Len(s) - 1))
    ELSE s

\* str.strip()
Strip(s) == RStrip(LStrip(s))

\* s.split(sep): the pieces of s between the occurrences of the character sep
RECURSIVE SplitAt(_, _, _)
SplitAt(s, sep, piece) ==
    IF Len(s) = 0 THEN <<piece>>
    ELSE IF Head(s) = sep THEN <<piece>> \o SplitAt(Tail(s), sep, <<>>)
    ELSE SplitAt(Tail(s), sep, Append(piece, Head(s)))

Split(s, sep) == SplitAt(s, sep, <<>>)

\* the lines a text file yields when iterated: each ends with its "\n", the last may not
RECURSIVE LinesFrom(_, _)
LinesFrom(s, line) ==
    IF Len(s) = 0 THEN (IF Len(line) = 0 THEN <<>> ELSE <<line>>)
    ELSE IF Head(s) = "\n" THEN <<Append(line, "\n")>> \o LinesFrom(Tail(s), <<>>)
    ELSE LinesFrom(Tail(s), Append(line, Head(s)))

FileLines(data) == LinesFrom(data, <<>>)

(***************************************************************************)
(* Dates and aware datetimes.                                              *)
(***************************************************************************)
Aware(utc, off) == [utc |-> utc, off |-> off]

\* dt.astimezone(tz)
AsTimezone(dt, off) == Aware(dt.utc, off)

\* dt.date(): the calendar day of the wall clock, counted from 2024-01-01
DateOf(dt) == (dt.utc + dt.off) \div SecondsPerDay

\* tz.localize(datetime(date, hour, minute, 0))
Localize(date, hour, minute, off) ==
    Aware(date * SecondsPerDay + hour * SecondsPerHour + minute * SecondsPerMinute - off, off)

\* dt - timedelta(minutes=m)
MinusMinutes(dt, m) == Aware(dt.utc - m * SecondsPerMinute, dt.off)

\* (a - b).total_seconds()
TotalSeconds(a, b) == a.utc - b.utc

\* Before with "<=" written for "<"
Before_OrEqual(a, b) == a.utc <= b.utc

\* a < b on aware datetimes
Before(a, b) == a.utc < b.utc

\* date.isoformat(), for the days of January 2024
IsoFormat(date) == <<"2", "0", "2", "4", "-", "0", "1", "-">> \o Pad2(date + 1)

\* datetime.date.today()
LocalToday(t) == DateOf(Aware(t, LOCAL_TZ))

(***************************************************************************)
(* Configuration.                                                          *)
(***************************************************************************)
SESSIONS_NY == <<
    [name |-> "Session 1", start |-> <<"0", "3", ":", "0", "0">>, end |-> <<"0", "4", ":", "0", "0">>],
    [name |-> "Session 2", start |-> <<"1", "0", ":", "0", "0">>, end |-> <<"1", "1", ":", "0", "0">>],
    [name |-> "Session 3", start |-> <<"1", "4", ":", "0", "0">>, end |-> <<"1", "5", ":", "0", "0">>] >>

NOTIFICATION_MINUTES_BEFORE == <<30, 5, 0>>

(***************************************************************************)
(* The session calendar.                                                   *)
(***************************************************************************)
get_ny_and_utc3_now(t) ==
    LET utc_now == Aware(t, 0)
    IN  [ny_now |-> AsTimezone(utc_now, NY_TZ), utc3_now |-> AsTimezone(utc_now, UTC3_TZ)]

get_session_times_utc3(session, ny_date) ==
    LET s == Split(session.start, ":")
        e == Split(session.end, ":")
        session_start_ny == Localize(ny_date, ParseInt(s[1]), ParseInt(s[2]), NY_TZ)
        session_end_ny == Localize(ny_date, ParseInt(e[1]), ParseInt(e[2]), NY_TZ)
    IN  [start |-> AsTimezone(session_start_ny, UTC3_TZ),
         end |-> AsTimezone(session_end_ny, UTC3_TZ)]

\* the dictionary get_next_sessions appends for a session resolved against a date
Occurrence(session, ny_date) ==
    LET times == get_session_times_utc3(session, ny_date)
    IN  [name |-> session.name, start_ny |-> session.start, end_ny |-> session.end,
         start_utc3 |-> times.start, end_utc3 |-> times.end]

\* TodaySessions with the list built newest first: next_sessions.insert(0, ...)
TodaySessions_NewestFirst(defs, ny_now, utc3_now) ==
    LET all == [i \in 1..Len(defs) |-> Occurrence(defs[Len(defs) + 1 - i], DateOf(ny_now))]
    IN  SelectSeq(all, LAMBDA o : Before(utc3_now, o.end_utc3))

\* TodaySessions filtering on the start: "if utc3_now < session_start_utc3"
TodaySessions_NotStarted(defs, ny_now, utc3_now) ==
    LET all == [i \in 1..Len(defs) |-> Occurrence(defs[i], DateOf(ny_now))]
    IN  SelectSeq(all, LAMBDA o : Before(utc3_now, o.start_utc3))

\* the first loop of get_next_sessions: today's sessions that have not ended
TodaySessions(defs, ny_now, utc3_now) ==
    LET all == [i \in 1..Len(defs) |-> Occurrence(defs[i], DateOf(ny_now))]
    IN  SelectSeq(all, LAMBDA o : Before(utc3_now, o.end_utc3))

\* TomorrowSessions with timedelta(days=0): today's date used again
TomorrowSessions_SameDay(defs, ny_now) ==
    [i \in 1..Len(defs) |-> Occurrence(defs[i], DateOf(ny_now))]

\* the second loop of get_next_sessions: every session of the next day
TomorrowSessions(defs, ny_now) ==
    LET tomorrow == DateOf(ny_now) + 1
    IN  [i \in 1..Len(defs) |-> Occurrence(defs[i], tomorrow)]

get_next_sessions(defs, ny_now, utc3_now) ==
    LET today == TodaySessions(defs, ny_now, utc3_now)
    IN  IF Len(today) = 0 THEN TomorrowSessions(defs, ny_now) ELSE today

(***************************************************************************)
(* The scheduler's firing window.                                          *)
(***************************************************************************)
\* time_diff of check_and_send_notifications
time_diff(session, minutes, utc3_now) ==
    TotalSeconds(MinusMinutes(session.start_utc3, minutes), utc3_now)

\* InWindow without its upper end: "if 0 <= time_diff"
InWindow_NoUpperEnd(d) == 0 <= d

\* InWindow without the second 60: "if 0 <= time_diff < 60"
InWindow_HalfOpen(d) == 0 <= d /\ d < WINDOW_SECONDS

\* InWindow two seconds longer: "if 0 <= time_diff <= 62"
InWindow_Longer(d) == 0 <= d /\ d <= WINDOW_SECONDS + 2

\* "if 0 <= time_diff <= 60"
InWindow(d) == 0 <= d /\ d <= WINDOW_SECONDS

\* what a message says: its kind, and for a notification the occurrence and lead time
Message(kind, name, start, minutes) ==
    [kind |-> kind, name |-> name, start |-> start, minutes |-> minutes]

NotificationMessage(session, minutes) ==
    Message(IF minutes = 0 THEN "session_start" ELSE "pre_session",
            session.name, session.start_utc3.utc, minutes)

\* the (session, minutes) pairs in the order of the two nested loops
LoopPairs(ns) ==
    LET n == Len(NOTIFICATION_MINUTES_BEFORE)
    IN  [k \in 1..(Len(ns) * n) |->
            [session |-> ns[((k - 1) \div n) + 1],
             minutes |-> NOTIFICATION_MINUTES_BEFORE[((k - 1) % n) + 1]]]

\* the messages one call of check_and_send_notifications sends, in order
DueMessages(ns, utc3_now) ==
    LET due == SelectSeq(LoopPairs(ns),
                         LAMBDA p : InWindow(time_diff(p.session, p.minutes, utc3_now)))
    IN  [k \in 1..Len(due) |-> NotificationMessage(due[k].session, due[k].minutes)]

(***************************************************************************)
(* The transport and the ledger file.                                      *)
(***************************************************************************)
AbsentFile == [exists |-> FALSE, data |-> <<>>]

EmptyFile == [exists |-> TRUE, data |-> <<>>]

\* AppendMessageId without the newline: f.write(f"{message_id}")
AppendMessageId_NoNewline(file, message_id) ==
    [exists |-> TRUE, data |-> file.data \o FormatInt(message_id)]

\* AppendMessageId with the file opened for writing: open(MESSAGES_FILE, 'w')
AppendMessageId_Overwrite(file, message_id) ==
    [exists |-> TRUE, data |-> FormatInt(message_id) \o <<"\n">>]

\* open(MESSAGES_FILE, 'a') and f.write(f"{message_id}\n")
AppendMessageId(file, message_id) ==
    [exists |-> TRUE, data |-> file.data \o FormatInt(message_id) \o <<"\n">>]

\* [line.strip() for line in f if line.strip()]
ReadMessageIds(data) ==
    LET lines == FileLines(data)
        stripped == [i \in 1..Len(lines) |-> Strip(lines[i])]
    IN  SelectSeq(stripped, LAMBDA l : Len(l) > 0)

\* what the sends of one step act on
World ==
    [ledger |-> ledgerFile, nextId |-> nextId, calls |-> calls,
     runLog |-> runLog, recLog |-> recLog]

Logged(w, message, t, ret) ==
    Append(w.runLog, [kind |-> message.kind, name |-> message.name,
                      start |-> message.start, minutes |-> message.minutes,
                      at |-> t, ret |-> ret])

\* requests.post(url, data=data) and raise_for_status() raise on request number n
PostFails(n) == n \in lossy

\* the inner try block raises after request number n: the message_id is not stored
StoreFails(n) == n \in unstorable

\* AfterStoreError with the error passed on to the outer "except": return False
AfterStoreError_ReportsFailure(w, message, t) ==
    [w EXCEPT !.nextId = @ + 1,
              !.calls = @ + 1,
              !.runLog = Logged(w, message, t, FALSE)]

\* the message is sent, "except Exception" of the inner try logs that its
\* message_id could not be stored, and return True follows
AfterStoreError(w, message, t) ==
    [w EXCEPT !.nextId = @ + 1,
              !.calls = @ + 1,
              !.runLog = Logged(w, message, t, TRUE)]

\* send_telegram_message(message) at time t
send_telegram_message(w, message, t) ==
    IF ~credentials
    THEN [w EXCEPT !.runLog = Logged(w, message, t, FALSE)]
    ELSE IF PostFails(w.calls + 1)
    THEN [w EXCEPT !.runLog = Logged(w, message, t, FALSE), !.calls = @ + 1]
    ELSE IF StoreFails(w.calls + 1)
    THEN AfterStoreError(w, message, t)
    ELSE [w EXCEPT !.ledger = AppendMessageId(@, w.nextId),
                   !.nextId = @ + 1,
                   !.calls = @ + 1,
                   !.runLog = Logged(w, message, t, TRUE),
                   !.recLog = Append(@, [id |-> w.nextId, day |-> LocalToday(t), run |-> run])]

\* the first n of messages sent one after the other
RECURSIVE SendAll(_, _, _, _)
SendAll(w, messages, n, t) ==
    IF n = 0 THEN w
    ELSE send_telegram_message(SendAll(w, messages, n - 1, t), messages[n], t)

SetWorld(w) ==
    /\ ledgerFile' = w.ledger
    /\ nextId' = w.nextId
    /\ calls' = w.calls
    /\ runLog' = w.runLog
    /\ recLog' = w.recLog

\* the step sends the first n of messages
Sends(messages, n, t) == SetWorld(SendAll(World, messages, n, t))

(***************************************************************************)
(* main: the daily cleanup.                                                *)
(***************************************************************************)
\* CleanupDue without the comparison: the cleanup at every startup
CleanupDue_Always(last_cleanup_date, today) == TRUE

\* CleanupDue as "if not last_cleanup_date": the cleanup only while no marker is kept
CleanupDue_OnlyWithoutMarker(last_cleanup_date, today) == last_cleanup_date = <<>>

\* "if last_cleanup_date != today_str"
CleanupDue(last_cleanup_date, today) == last_cleanup_date # today

\* f.read().strip() of the marker file, "" when there is none
ReadMarker(file) == IF file.exists THEN Strip(file.data) ELSE <<>>

\* f.write(today_str)
WriteMarker(today) == [exists |-> TRUE, data |-> today]

Gate ==
    /\ pc = "gate"
    /\ LET today == IsoFormat(LocalToday(now))
           due == CleanupDue(ReadMarker(markerFile), today)
       IN  /\ today_str' = today
           /\ pc' = IF due THEN "clear" ELSE "summary"
           /\ gateLog' = Append(gateLog, [day |-> LocalToday(now), ran |-> due])
    /\ UNCHANGED <<definitions, credentials, lossy, unstorable, faultLog, markedBy, now,
                   run, end_time, next_sessions, message_ids, idx, deleted_count,
                   failed_count, ledgerFile, markerFile, nextId, calls, ticks, exitKind,
                   exitLog, runLog, recLog, delLog>>

\* clear_chat_history up to its loop
Clear ==
    /\ pc = "clear"
    /\ IF ~ledgerFile.exists
       THEN /\ pc' = "mark"
            /\ UNCHANGED <<message_ids, ledgerFile>>
       ELSE LET ids == ReadMessageIds(ledgerFile.data)
            IN  IF Len(ids) = 0
                THEN /\ ledgerFile' = EmptyFile
                     /\ pc' = "mark"
                     /\ UNCHANGED message_ids
                ELSE /\ message_ids' = ids
                     /\ pc' = "deleting"
                     /\ UNCHANGED ledgerFile
    /\ idx' = 0
    /\ deleted_count' = 0
    /\ failed_count' = 0
    /\ UNCHANGED <<definitions, credentials, lossy, unstorable, faultLog, markedBy, now,
                   run, today_str, end_time, next_sessions, markerFile, nextId, calls,
                   ticks, exitKind, exitLog, runLog, recLog, delLog, gateLog>>

\* Reversed without reversed(): "for message_id in message_ids"
Reversed_OldestFirst(ids, i) == ids[i + 1]

\* the element of reversed(message_ids) the loop takes after i others
Reversed(ids, i) == ids[Len(ids) - i]

\* one iteration of "for message_id in reversed(message_ids)"
Delete ==
    /\ pc = "deleting"
    /\ idx < Len(message_ids)
    /\ \E deleted \in BOOLEAN :
        /\ deleted_count' = deleted_count + (IF deleted THEN 1 ELSE 0)
        /\ failed_count' = failed_count + (IF deleted THEN 0 ELSE 1)
    /\ delLog' = Append(delLog, [id |-> Reversed(message_ids, idx), run |-> run])
    /\ idx' = idx + 1
    /\ UNCHANGED <<definitions, credentials, lossy, unstorable, faultLog, markedBy, now,
                   pc, run, today_str, end_time, next_sessions, message_ids, ledgerFile,
                   markerFile, nextId, calls, ticks, exitKind, exitLog, runLog, recLog,
                   gateLog>>

\* Truncated only when no deletion failed: the file kept for another try
Truncated_UnlessFailed(file, deleted, failed) == IF failed = 0 THEN EmptyFile ELSE file

\* what "open(MESSAGES_FILE, 'w').close()" after the loop leaves
Truncated(file, deleted, failed) == EmptyFile

Truncate ==
    /\ pc = "deleting"
    /\ idx = Len(message_ids)
    /\ ledgerFile' = Truncated(ledgerFile, deleted_count, failed_count)
    /\ pc' = "mark"
    /\ UNCHANGED <<definitions, credentials, lossy, unstorable, faultLog, markedBy, now,
                   run, today_str, end_time, next_sessions, message_ids, idx,
                   deleted_count, failed_count, markerFile, nextId, calls, ticks,
                   exitKind, exitLog, runLog, recLog, delLog, gateLog>>

\* clear_chat_history has returned: main writes the marker
Mark ==
    /\ pc = "mark"
    /\ markerFile' = WriteMarker(today_str)
    /\ pc' = "summary"
    /\ message_ids' = <<>>
    /\ idx' = 0
    /\ deleted_count' = 0
    /\ failed_count' = 0
    /\ markedBy' = run
    /\ UNCHANGED <<definitions, credentials, lossy, unstorable, faultLog, now, run,
                   today_str, end_time, next_sessions, ledgerFile, nextId, calls, ticks,
                   exitKind, exitLog, runLog, recLog, delLog, gateLog>>

(***************************************************************************)
(* main: the startup summary, the polling loop and the ways out of it.     *)
(***************************************************************************)
configVars == <<definitions, credentials, lossy, unstorable>>

drainVars == <<message_ids, idx, deleted_count, failed_count>>

StartupMessage == Message("startup", "", 0, 0)

ShutdownMessage == Message("shutdown", "", 0, 0)

ErrorMessage == Message("error", "", 0, 0)

\* datetime.datetime.now() + datetime.timedelta(hours=23, minutes=30)
EndTime(t) == t + RUN_SECONDS

\* LoopCondition with "<=": one more tick at the deadline itself
LoopCondition_OrEqual(t, end) == t <= end

\* "while datetime.datetime.now() < end_time"
LoopCondition(t, end) == t < end

\* the messages check_and_send_notifications sends when called at time t
CheckAndSend(t) ==
    LET z == get_ny_and_utc3_now(t)
    IN  DueMessages(get_next_sessions(SESSIONS_NY, z.ny_now, z.utc3_now), z.utc3_now)

\* AfterSummary with the cleanup block moved behind the startup summary
AfterSummary_ThenCleanup == IF Len(runLog) = 0 THEN "gate" ELSE "loop"

\* where main goes once the startup summary is sent: into the polling loop
AfterSummary == "loop"

\* end_time is set and the startup message is sent
Summary ==
    /\ pc = "summary"
    /\ end_time' = EndTime(now)
    /\ Sends(<<StartupMessage>>, 1, now)
    /\ pc' = AfterSummary
    /\ UNCHANGED <<configVars, drainVars, faultLog, markedBy, now, run, today_str, next_sessions, markerFile,
                   ticks, exitKind, exitLog, delLog, gateLog>>

\* one iteration of the loop: check_and_send_notifications(), then time.sleep(60)
Tick ==
    /\ pc = "loop"
    /\ LoopCondition(now, end_time)
    /\ LET due == CheckAndSend(now)
       IN  Sends(due, Len(due), now)
    /\ now' = now + POLL_SECONDS
    /\ ticks' = ticks + 1
    /\ UNCHANGED <<configVars, drainVars, faultLog, markedBy, pc, run, today_str, end_time, next_sessions,
                   markerFile, exitKind, exitLog, delLog, gateLog>>

\* the loop ends at the deadline: the shutdown message, and main returns
Shutdown ==
    /\ pc = "loop"
    /\ ~LoopCondition(now, end_time)
    /\ Sends(<<ShutdownMessage>>, 1, now)
    /\ pc' = "idle"
    /\ exitKind' = "deadline"
    /\ exitLog' = Append(exitLog, "deadline")
    /\ UNCHANGED <<configVars, drainVars, faultLog, markedBy, now, run, today_str, end_time, next_sessions,
                   markerFile, ticks, delLog, gateLog>>

\* KeyboardInterrupt in the loop, after k of the tick's sends: "except KeyboardInterrupt"
Interrupt ==
    /\ pc = "loop"
    /\ LoopCondition(now, end_time)
    /\ ticks < StopWindow
    /\ LET due == CheckAndSend(now)
       IN  \E k \in 0..Len(due) : Sends(due, k, now)
    /\ pc' = "idle"
    /\ exitKind' = "interrupt"
    /\ exitLog' = Append(exitLog, "interrupt")
    /\ UNCHANGED <<configVars, drainVars, faultLog, markedBy, now, run, today_str, end_time, next_sessions,
                   markerFile, ticks, delLog, gateLog>>

\* ErrorHandler that only logs: no send_telegram_message in "except Exception"
ErrorHandler_LogOnly(due, k) == SubSeq(due, 1, k)

\* what "except Exception" sends after k of the tick's sends
ErrorHandler(due, k) == Append(SubSeq(due, 1, k), ErrorMessage)

\* an exception in the loop, after k of the tick's sends: "except Exception"
LoopError ==
    /\ pc = "loop"
    /\ LoopCondition(now, end_time)
    /\ ticks < StopWindow
    /\ LET due == CheckAndSend(now)
       IN  \E k \in 0..Len(due) :
               LET sent == ErrorHandler(due, k)
               IN  Sends(sent, Len(sent), now)
    /\ pc' = "idle"
    /\ exitKind' = "error"
    /\ exitLog' = Append(exitLog, "error")
    /\ UNCHANGED <<configVars, drainVars, faultLog, markedBy, now, run, today_str, end_time, next_sessions,
                   markerFile, ticks, delLog, gateLog>>

\* main is entered again, delay seconds after the process ended
RestartAfter(delay) ==
    /\ run < MaxRuns
    /\ now' = now + delay
    /\ run' = run + 1
    /\ pc' = "gate"
    /\ today_str' = <<>>
    /\ end_time' = 0
    /\ ticks' = 0
    /\ exitKind' = "none"
    /\ runLog' = <<>>
    /\ UNCHANGED <<configVars, drainVars, faultLog, markedBy, next_sessions, ledgerFile, markerFile, nextId,
                   calls, exitLog, recLog, delLog, gateLog>>

\* the supervisor starts the process again
Restart ==
    /\ pc = "idle"
    /\ RestartAfter(RestartDelay)

\* the supervisor's daily schedule starts the process a day after it ended
NextDayRestart ==
    /\ pc = "idle"
    /\ RestartAfter(SecondsPerDay)

(***************************************************************************)
(* Faults of the two files, and kills.                                     *)
(***************************************************************************)
\* AfterCleanupError without main's "except Exception": the error ends the process
AfterCleanupError_Raises == "idle"

\* where main goes on when its cleanup block raised: "except Exception" logs the
\* error and the code after the block follows
AfterCleanupError == "summary"

\* where an error inside clear_chat_history leads: its own "except Exception" logs
\* it and the function returns to main
AfterClearError == "mark"

Faulted(kind) == faultLog' = Append(faultLog, [run |-> run, kind |-> kind])

\* open(LAST_CLEANUP_FILE, 'r') or f.read() raises
MarkerReadFault ==
    /\ pc = "gate"
    /\ markerFile.exists
    /\ Len(faultLog) < MaxFaults
    /\ today_str' = IsoFormat(LocalToday(now))
    /\ pc' = AfterCleanupError
    /\ gateLog' = Append(gateLog, [day |-> LocalToday(now), ran |-> FALSE])
    /\ Faulted("read_marker")
    /\ UNCHANGED <<configVars, drainVars, markedBy, now, run, end_time, next_sessions,
                   ledgerFile, markerFile, nextId, calls, ticks, exitKind, exitLog,
                   runLog, recLog, delLog>>

\* open(MESSAGES_FILE, 'r') or the reading of its lines raises
LedgerReadFault ==
    /\ pc = "clear"
    /\ ledgerFile.exists
    /\ Len(faultLog) < MaxFaults
    /\ pc' = AfterClearError
    /\ Faulted("read_ledger")
    /\ UNCHANGED <<configVars, drainVars, markedBy, now, run, today_str, end_time,
                   next_sessions, ledgerFile, markerFile, nextId, calls, ticks,
                   exitKind, exitLog, runLog, recLog, delLog, gateLog>>

\* open(MESSAGES_FILE, 'w') after the loop raises: the file is left as it was
TruncateFault ==
    /\ pc = "deleting"
    /\ idx = Len(message_ids)
    /\ Len(faultLog) < MaxFaults
    /\ pc' = AfterClearError
    /\ Faulted("truncate_ledger")
    /\ UNCHANGED <<configVars, drainVars, markedBy, now, run, today_str, end_time,
                   next_sessions, ledgerFile, markerFile, nextId, calls, ticks,
                   exitKind, exitLog, runLog, recLog, delLog, gateLog>>

\* writing the marker raises: open(LAST_CLEANUP_FILE, 'w') fails and the file is
\* left as it was, or f.write fails and the file is left empty
MarkerWriteFault ==
    /\ pc = "mark"
    /\ Len(faultLog) < MaxFaults
    /\ \E left \in {markerFile, EmptyFile} : markerFile' = left
    /\ pc' = AfterCleanupError
    /\ message_ids' = <<>>
    /\ idx' = 0
    /\ deleted_count' = 0
    /\ failed_count' = 0
    /\ Faulted("write_marker")
    /\ UNCHANGED <<configVars, markedBy, now, run, today_str, end_time, next_sessions,
                   ledgerFile, nextId, calls, ticks, exitKind, exitLog, runLog, recLog,
                   delLog, gateLog>>

\* where a kill can strike the cleanup: from the start of the drain to the marker write
CleanupPoints == {"clear", "deleting", "mark"}

\* the process is killed, during the cleanup or in its loop: nothing more of main runs
Kill ==
    /\ \/ pc = "loop"
       \/ pc \in CleanupPoints /\ Len(faultLog) < MaxFaults
    /\ faultLog' = IF pc \in CleanupPoints
                   THEN Append(faultLog, [run |-> run, kind |-> "kill"])
                   ELSE faultLog
    /\ pc' = "idle"
    /\ exitKind' = "killed"
    /\ exitLog' = Append(exitLog, "killed")
    /\ message_ids' = <<>>
    /\ idx' = 0
    /\ deleted_count' = 0
    /\ failed_count' = 0
    /\ UNCHANGED <<configVars, markedBy, now, run, today_str, end_time, next_sessions,
                   ledgerFile, markerFile, nextId, calls, ticks, runLog, recLog, delLog,
                   gateLog>>

\* an iteration of the loop among the first TicksFollowed of its run
FollowedTick == ticks < TicksFollowed /\ Tick

(***************************************************************************)
(* The specifications.                                                     *)
(***************************************************************************)
\* main has been entered at time t for the first time: no ledger, no marker
StartedWith(creds, fails, unstored, t) ==
    /\ definitions = <<>>
    /\ credentials = creds
    /\ lossy = fails
    /\ unstorable = unstored
    /\ now = t
    /\ pc = "gate"
    /\ run = 1
    /\ today_str = <<>>
    /\ end_time = 0
    /\ next_sessions = <<>>
    /\ message_ids = <<>>
    /\ idx = 0
    /\ deleted_count = 0
    /\ failed_count = 0
    /\ ledgerFile = AbsentFile
    /\ markerFile = AbsentFile
    /\ nextId = FirstMessageId
    /\ calls = 0
    /\ ticks = 0
    /\ exitKind = "none"
    /\ exitLog = <<>>
    /\ runLog = <<>>
    /\ recLog = <<>>
    /\ delLog = <<>>
    /\ gateLog = <<>>
    /\ faultLog = <<>>
    /\ markedBy = 0

\* the same where every message_id can be stored
Started(creds, fails, t) == StartedWith(creds, fails, {}, t)

\* 02:29:30 in New York on 2024-01-01
FirstStart == Localize(0, 2, 29, NY_TZ).utc + 30

\* The environments drawn: every sendMessage request succeeds, or the requests of
\* these numbers fail.
LossyWorlds == {{}, {2}, {1, 3}}

Init ==
    \/ \E fails \in LossyWorlds : Started(TRUE, fails, FirstStart)
    \/ Started(FALSE, {}, FirstStart)

Next ==
    \/ Gate
    \/ Clear
    \/ Delete
    \/ Truncate
    \/ Mark
    \/ Summary
    \/ Tick
    \/ Shutdown
    \/ Interrupt
    \/ LoopError
    \/ Restart

Spec == Init /\ [][Next]_vars

\* One run of main in which one sendMessage request fails, with ticks that fall on
\* the second of the notification instants or 30 seconds off them.
LossyStarts == {Localize(0, 2, 29, NY_TZ).utc, Localize(0, 2, 29, NY_TZ).utc + 30}

\* request 1 is the startup message, requests 2 and 3 are the first notifications
LossyTickWorlds == {{2}, {3}}

InitLossy == \E t \in LossyStarts, fails \in LossyTickWorlds : Started(TRUE, fails, t)

NextLossy ==
    \/ Gate
    \/ Clear
    \/ Mark
    \/ Summary
    \/ Tick
    \/ Shutdown

SpecLossy == InitLossy /\ [][NextLossy]_vars

\* Runs of main whose startups are struck by file faults and kills, in environments
\* <<credentials, lossy, unstorable>>; each run is killed within TicksFollowed ticks
\* and started again minutes or a day later.
FaultWorlds == {<<TRUE, {}, {}>>, <<TRUE, {1}, {}>>, <<TRUE, {}, {2}>>, <<FALSE, {}, {}>>}

InitFaults == \E w \in FaultWorlds : StartedWith(w[1], w[2], w[3], FirstStart)

NextFaults ==
    \/ Gate
    \/ Clear
    \/ Delete
    \/ Truncate
    \/ Mark
    \/ Summary
    \/ FollowedTick
    \/ MarkerReadFault
    \/ LedgerReadFault
    \/ TruncateFault
    \/ MarkerWriteFault
    \/ Kill
    \/ Restart
    \/ NextDayRestart

SpecFaults == InitFaults /\ [][NextFaults]_vars

\* One run of main in which every send succeeds, started at each second of a minute.
TickStarts == {Localize(0, 2, 0, NY_TZ).utc + p : p \in 0..(POLL_SECONDS - 1)}

InitTicks == \E t \in TickStarts : Started(TRUE, {}, t)

NextTicks ==
    \/ Gate
    \/ Clear
    \/ Mark
    \/ Summary
    \/ Tick
    \/ Shutdown

SpecTicks == InitTicks /\ [][NextTicks]_vars

\* One run of main with the process scheduled: a step main can take is taken.
FairStarts == {Localize(0, 2, 0, NY_TZ).utc, Localize(0, 2, 0, NY_TZ).utc + 30}

InitFair == \E t \in FairStarts : Started(TRUE, {}, t)

\* the loop goes round once more: what a step of Tick does to the clock
TickAdvance ==
    /\ pc = "loop"
    /\ LoopCondition(now, end_time)
    /\ now' = now + POLL_SECONDS

SpecTicksFair ==
    /\ InitFair
    /\ [][NextTicks]_vars
    /\ WF_vars(Gate)
    /\ WF_vars(Clear)
    /\ WF_vars(Mark)
    /\ WF_vars(Summary)
    /\ WF_now(TickAdvance)
    /\ WF_vars(Shutdown)

\* One run of main whose ticks drift: the first SlowTicks iterations of the loop take
\* two seconds more than the sleep (a slow check_and_send_notifications), the later
\* ones a second less (the clock stepped back under the process).
SlowPeriod == POLL_SECONDS + 2

FastPeriod == POLL_SECONDS - 1

\* the seconds from the start of the loop's iteration n (counted from 0) to the next
Period(n) == IF n < SlowTicks THEN SlowPeriod ELSE FastPeriod

\* one iteration of the loop, with the time it takes under drift
DriftTick ==
    /\ pc = "loop"
    /\ LoopCondition(now, end_time)
    /\ LET due == CheckAndSend(now)
       IN  Sends(due, Len(due), now)
    /\ now' = now + Period(ticks)
    /\ ticks' = ticks + 1
    /\ UNCHANGED <<configVars, drainVars, faultLog, markedBy, pc, run, today_str, end_time, next_sessions,
                   markerFile, exitKind, exitLog, delLog, gateLog>>

DriftStarts == {Localize(0, 2, 0, NY_TZ).utc + p : p \in 0..9}

InitDrift == \E t \in DriftStarts : Started(TRUE, {}, t)

NextDrift ==
    \/ Gate
    \/ Clear
    \/ Mark
    \/ Summary
    \/ DriftTick
    \/ Shutdown

SpecDrift == InitDrift /\ [][NextDrift]_vars

\* Lone calls of get_next_sessions, on drawn session definitions at drawn instants.
ClockTimes == <<<<0, 30>>, <<3, 0>>, <<4, 0>>, <<23, 30>>>>

SessionNames == <<"Session 1", "Session 2", "Session 3", "Session 4">>

\* "HH:MM"
ClockText(c) == Pad2(c[1]) \o <<":">> \o Pad2(c[2])

\* the pairs of a start and a later end on the same day
SessionSpans == {<<a, b>> \in (1..Len(ClockTimes)) \X (1..Len(ClockTimes)) : a < b}

DrawnDefinitions ==
    UNION {{[i \in 1..n |-> [name |-> SessionNames[i],
                             start |-> ClockText(ClockTimes[spans[i][1]]),
                             end |-> ClockText(ClockTimes[spans[i][2]])]] :
            spans \in [1..n -> SessionSpans]} : n \in 1..MaxSessions}

\* noon of 2024-01-02 in New York, and the second before, of and after each clock time
DrawnInstants ==
    {Localize(1, 12, 0, NY_TZ).utc} \cup
    {Localize(1, ClockTimes[i][1], ClockTimes[i][2], NY_TZ).utc + d :
        i \in 1..Len(ClockTimes), d \in {-1, 0, 1}}

\* before a lone call of get_next_sessions on one of defs at one of instants
BeforeCall(defs, instants) ==
    /\ definitions \in defs
    /\ credentials = TRUE
    /\ lossy = {}
    /\ unstorable = {}
    /\ now \in instants
    /\ pc = "calendar"
    /\ run = 0
    /\ today_str = <<>>
    /\ end_time = 0
    /\ next_sessions = <<>>
    /\ message_ids = <<>>
    /\ idx = 0
    /\ deleted_count = 0
    /\ failed_count = 0
    /\ ledgerFile = AbsentFile
    /\ markerFile = AbsentFile
    /\ nextId = FirstMessageId
    /\ calls = 0
    /\ ticks = 0
    /\ exitKind = "none"
    /\ exitLog = <<>>
    /\ runLog = <<>>
    /\ recLog = <<>>
    /\ delLog = <<>>
    /\ gateLog = <<>>
    /\ faultLog = <<>>
    /\ markedBy = 0

InitCalendar == BeforeCall(DrawnDefinitions, DrawnInstants)

\* one call of get_next_sessions(ny_now, utc3_now)
CallGetNextSessions ==
    /\ pc = "calendar"
    /\ LET z == get_ny_and_utc3_now(now)
       IN  next_sessions' = get_next_sessions(definitions, z.ny_now, z.utc3_now)
    /\ pc' = "returned"
    /\ UNCHANGED <<configVars, drainVars, faultLog, markedBy, now, run, today_str, end_time, ledgerFile,
                   markerFile, nextId, calls, ticks, exitKind, exitLog, runLog, recLog,
                   delLog, gateLog>>

NextCalendar == CallGetNextSessions

SpecCalendar == InitCalendar /\ [][NextCalendar]_vars

\* Lone calls of get_next_sessions on the configured sessions, at every second of
\* 2024-01-02 in New York.
DueInstants == {Localize(1, 0, 0, NY_TZ).utc + s : s \in 0..(SecondsPerDay - 1)}

InitDue == BeforeCall({SESSIONS_NY}, DueInstants)

SpecDue == InitDue /\ [][NextCalendar]_vars

(***************************************************************************)
(* Properties of get_next_sessions (SpecCalendar).                         *)
(***************************************************************************)
\* the New York date of now
TodayNY == DateOf(Aware(now, NY_TZ))

\* the instant at which definition i ends on New York date d
EndInstant(i, d) == Occurrence(definitions[i], d).end_utc3.utc

\* the definitions whose occurrence of today ends strictly after now
Unended == {i \in 1..Len(definitions) : now < EndInstant(i, TodayNY)}

\* C8: for definitions with start < end on the same day, when now is before the end
\* of today's last session, get_next_sessions returns exactly the occurrences of
\* today whose end is strictly after now: each of them once, and none that has
\* ended or ends at now.
C8_OnlyUnendedToday ==
    (pc = "returned" /\ Unended # {}) =>
        /\ Len(next_sessions) = Cardinality(Unended)
        /\ \A i \in Unended :
               \E j \in 1..Len(next_sessions) :
                   next_sessions[j] = Occurrence(definitions[i], TodayNY)
        /\ \A j \in 1..Len(next_sessions) :
               /\ now < next_sessions[j].end_utc3.utc
               /\ DateOf(AsTimezone(next_sessions[j].end_utc3, NY_TZ)) = TodayNY

\* a call at the very instant one of today's sessions ends, another still to end
C8_Witness ==
    /\ pc = "returned"
    /\ Unended # {}
    /\ \E i \in 1..Len(definitions) : EndInstant(i, TodayNY) = now
    /\ Len(next_sessions) = 1
    /\ Len(definitions) = 2

\* C9: when now is at or past the end of every one of today's sessions,
\* get_next_sessions returns one occurrence per definition, in the definitions'
\* positions, each a day after today's occurrence and on the next New York date.
C9_TomorrowInFull ==
    (pc = "returned" /\ Unended = {}) =>
        /\ Len(next_sessions) = Len(definitions)
        /\ \A i \in 1..Len(definitions) :
               LET today == Occurrence(definitions[i], TodayNY)
               IN  /\ next_sessions[i].name = definitions[i].name
                   /\ next_sessions[i].start_utc3.utc = today.start_utc3.utc + SecondsPerDay
                   /\ next_sessions[i].end_utc3.utc = today.end_utc3.utc + SecondsPerDay
                   /\ DateOf(AsTimezone(next_sessions[i].start_utc3, NY_TZ)) = TodayNY + 1

\* a call at the very instant today's last session ends, with two definitions
C9_Witness ==
    /\ pc = "returned"
    /\ Unended = {}
    /\ \E i \in 1..Len(definitions) : EndInstant(i, TodayNY) = now
    /\ Len(definitions) = 2
    /\ Len(next_sessions) = 2
    /\ next_sessions[1].start_utc3.utc > now

\* the position in the configuration of the definition occurrence o was made from
DefinitionIndex(o) == CHOOSE i \in 1..Len(definitions) : definitions[i].name = o.name

\* C12: the occurrences get_next_sessions returns stand in the order of their
\* definitions in the configuration, in the list of today's sessions as in the list
\* of tomorrow's, also when that order is not the order of their times.
C12_ConfigurationOrder ==
    pc = "returned" =>
        /\ \A j \in 1..Len(next_sessions) :
               \E i \in 1..Len(definitions) : definitions[i].name = next_sessions[j].name
        /\ \A j, k \in 1..Len(next_sessions) :
               j < k => DefinitionIndex(next_sessions[j]) < DefinitionIndex(next_sessions[k])

\* two of today's sessions returned, the one configured first starting later
C12_Witness ==
    /\ pc = "returned"
    /\ Unended # {}
    /\ Len(next_sessions) = 2
    /\ next_sessions[1].name = definitions[1].name
    /\ next_sessions[1].start_utc3.utc > next_sessions[2].start_utc3.utc

\* the occurrences of the configured sessions on yesterday's, today's and
\* tomorrow's New York date
NearOccurrences ==
    {Occurrence(SESSIONS_NY[i], d) :
        i \in 1..Len(SESSIONS_NY), d \in {TodayNY - 1, TodayNY, TodayNY + 1}}

\* the notification of (o, minutes) is due at now: its instant is in [now, now + 60]
DueNow(o, minutes) ==
    LET d == o.start_utc3.utc - minutes * SecondsPerMinute - now
    IN  0 <= d /\ d <= WINDOW_SECONDS

Listed(o) == \E j \in 1..Len(next_sessions) : next_sessions[j] = o

\* C21: for the configured sessions and lead times, whenever the notification
\* instant of (occurrence, lead time) lies in [now, now + 60 seconds], the
\* occurrence is in the list get_next_sessions returns at now.
C21_DueIsListed ==
    pc = "returned" =>
        LET near == NearOccurrences
        IN  \A o \in near :
                \A k \in 1..Len(NOTIFICATION_MINUTES_BEFORE) :
                    DueNow(o, NOTIFICATION_MINUTES_BEFORE[k]) => Listed(o)

\* a call 60 seconds before a session starts, an earlier session of the day ended
\* and filtered out, the starting session listed
C21_Witness ==
    /\ pc = "returned"
    /\ definitions = SESSIONS_NY
    /\ Len(next_sessions) < Len(SESSIONS_NY)
    /\ DateOf(AsTimezone(next_sessions[1].start_utc3, NY_TZ)) = TodayNY
    /\ next_sessions[1].start_utc3.utc - now = WINDOW_SECONDS
    /\ DueNow(next_sessions[1], 0)

(***************************************************************************)
(* Properties of the polling loop with ticks 60 seconds apart (SpecTicks). *)
(***************************************************************************)
NotificationKinds == {"pre_session", "session_start"}

\* the instant of the run's first tick: end_time is set as the loop is entered
FirstTick == end_time - RUN_SECONDS

\* the notifications sent so far for (occurrence starting at start, lead minutes)
SentFor(name, start, minutes) ==
    SelectSeq(runLog, LAMBDA e : /\ e.kind \in NotificationKinds
                                 /\ e.name = name
                                 /\ e.start = start
                                 /\ e.minutes = minutes)

\* those of them sent by the tick evaluated at instant t
SentForAt(name, start, minutes, t) ==
    SelectSeq(SentFor(name, start, minutes), LAMBDA e : e.at = t)

\* everything the call of check_and_send_notifications at instant t sent
SentAt(t) == SelectSeq(runLog, LAMBDA e : e.kind \in NotificationKinds /\ e.at = t)

\* the occurrences of the New York dates the run touches
RunOccurrences ==
    {Occurrence(SESSIONS_NY[i], d) :
        i \in 1..Len(SESSIONS_NY),
        d \in {DateOf(Aware(FirstTick, NY_TZ)), DateOf(Aware(FirstTick, NY_TZ)) + 1}}

Leads == {NOTIFICATION_MINUTES_BEFORE[k] : k \in 1..Len(NOTIFICATION_MINUTES_BEFORE)}

\* the instant of the notification of occurrence o with lead minutes
NotificationInstant(o, minutes) == o.start_utc3.utc - minutes * SecondsPerMinute

\* a tick of this run has been evaluated at instant t
TickedAt(t) ==
    /\ pc \in {"loop", "idle"}
    /\ FirstTick <= t
    /\ t < FirstTick + ticks * POLL_SECONDS
    /\ (t - FirstTick) % POLL_SECONDS = 0

\* C1: with ticks exactly 60 seconds apart and every send succeeding, whatever the
\* second of the minute the first tick falls on, a run that reaches its deadline
\* has sent exactly one notification for every (occurrence, lead time) whose
\* instant lies within the run: never none and never two.
C1_ExactlyOneSendPerPair ==
    (pc = "idle" /\ exitKind = "deadline") =>
        \A o \in RunOccurrences, minutes \in Leads :
            (/\ FirstTick + POLL_SECONDS <= NotificationInstant(o, minutes)
             /\ NotificationInstant(o, minutes) <= end_time - POLL_SECONDS)
            => Len(SentFor(o.name, o.start_utc3.utc, minutes)) = 1

\* C2: when a tick is evaluated at the very instant of a notification, that tick
\* sends it once, and the ticks 60 seconds before and 60 seconds after do not.
C2_FiresOnlyAtTheInstant ==
    \A o \in RunOccurrences, minutes \in Leads :
        LET t == NotificationInstant(o, minutes)
        IN  TickedAt(t) =>
                /\ Len(SentForAt(o.name, o.start_utc3.utc, minutes, t)) = 1
                /\ Len(SentForAt(o.name, o.start_utc3.utc, minutes, t - POLL_SECONDS)) = 0
                /\ Len(SentForAt(o.name, o.start_utc3.utc, minutes, t + POLL_SECONDS)) = 0

\* seconds since midnight on the New York wall clock at instant t
ClockNY(t) == (t + NY_TZ) % SecondsPerDay

\* the tick the loop finished last was evaluated at 02:30:00 in New York
TickedAtHalfPastTwo ==
    /\ pc = "loop"
    /\ ticks > 0
    /\ ClockNY(now - POLL_SECONDS) = 2 * SecondsPerHour + 30 * SecondsPerMinute

\* C7: the call of check_and_send_notifications at 02:30:00 New York time sends the
\* 30-minute notice of that day's Session 1 and nothing else.
C7_OnlyThirtyMinuteNotice ==
    TickedAtHalfPastTwo =>
        LET sent == SentAt(now - POLL_SECONDS)
        IN  /\ Len(sent) = 1
            /\ sent[1].kind = "pre_session"
            /\ sent[1].name = "Session 1"
            /\ sent[1].minutes = 30
            /\ sent[1].start = (now - POLL_SECONDS) + 30 * SecondsPerMinute
            /\ sent[1].ret

C7_Witness ==
    /\ TickedAtHalfPastTwo
    /\ Len(SentAt(now - POLL_SECONDS)) = 1
    /\ Len(recLog) >= 2

\* the instant at which the loop's last finished tick was evaluated
LastTick == now - POLL_SECONDS

\* the candidate list of the tick evaluated at instant t
Candidates(t) ==
    LET z == get_ny_and_utc3_now(t)
    IN  get_next_sessions(SESSIONS_NY, z.ny_now, z.utc3_now)

\* delta: the notification's instant minus the instant of the tick, in seconds
Delta(o, minutes, t) == NotificationInstant(o, minutes) - t

\* how many of the messages in sent are the notification of (o, minutes)
CountOf(sent, o, minutes) ==
    Len(SelectSeq(sent, LAMBDA e : /\ e.name = o.name
                                   /\ e.start = o.start_utc3.utc
                                   /\ e.minutes = minutes))

\* C13: a tick sends the notification of (occurrence, lead time) exactly when the
\* occurrence is in its candidate list and 0 <= delta <= 60, and sends nothing
\* else: at delta = 0 and at delta = 60 it sends, at delta = -1 and at delta = 61
\* it does not.
C13_FiresIffInClosedWindow ==
    (pc = "loop" /\ ticks > 0) =>
        LET cands == Candidates(LastTick)
            sent == SentAt(LastTick)
        IN  /\ \A j \in 1..Len(cands), minutes \in Leads :
                   LET d == Delta(cands[j], minutes, LastTick)
                       n == CountOf(sent, cands[j], minutes)
                   IN  /\ n = IF 0 <= d /\ d <= 60 THEN 1 ELSE 0
                       /\ d \in {0, 60} => n = 1
                       /\ d \in {0 - 1, 61} => n = 0
            /\ \A k \in 1..Len(sent) :
                   \E j \in 1..Len(cands) :
                       /\ sent[k].name = cands[j].name
                       /\ sent[k].start = cands[j].start_utc3.utc
                       /\ sent[k].minutes \in Leads

\* the last tick met a notification of its candidate list at delta = 60 and sent it
C13_Witness ==
    /\ pc = "loop"
    /\ ticks > 0
    /\ Len(SentAt(LastTick)) = 1
    /\ \E minutes \in Leads :
           /\ Delta(Candidates(LastTick)[1], minutes, LastTick) = 60
           /\ CountOf(SentAt(LastTick), Candidates(LastTick)[1], minutes) = 1

(***************************************************************************)
(* Properties of the ledger, the cleanup gate and the ways out (Spec).     *)
(***************************************************************************)
\* C3: once clear_chat_history has returned the ledger holds nothing, whatever the
\* outcome of each delete_telegram_message: all failed, all succeeded, or a mix.
C3_LedgerEmptyAfterClear ==
    pc = "mark" => ledgerFile.data = <<>>

\* clear_chat_history has returned after three deletions that all failed
C3_Witness ==
    /\ pc = "mark"
    /\ Len(message_ids) >= 3
    /\ idx = Len(message_ids)
    /\ failed_count = Len(message_ids)
    /\ deleted_count = 0

\* C4: over the startups so far, a startup ran the cleanup exactly when no earlier
\* startup fell on its calendar date: the first startup of a date runs it (the
\* very first finds no marker), every later startup of that date skips it.
C4_CleanupOncePerDate ==
    \A i \in 1..Len(gateLog) :
        gateLog[i].ran <=> (\A j \in 1..(i - 1) : gateLog[j].day # gateLog[i].day)

\* two startups on one date, then one on the next
C4_Witness ==
    /\ Len(gateLog) = 3
    /\ gateLog[1].day = gateLog[2].day
    /\ gateLog[2].day < gateLog[3].day
    /\ gateLog[1].ran /\ ~gateLog[2].ran /\ gateLog[3].ran
    /\ markerFile.data = IsoFormat(gateLog[3].day)

\* the identifiers earlier startups have passed to delete_telegram_message
Attempted == {ParseInt(delLog[k].id) : k \in 1..Len(delLog)}

\* the recorded identifiers no cleanup has taken yet, oldest first
Outstanding == SelectSeq(recLog, LAMBDA r : r.id \notin Attempted)

\* the identifiers a reader of the ledger file obtains
LedgerIds == IF ledgerFile.exists THEN ReadMessageIds(ledgerFile.data) ELSE <<>>

\* C5: a process started after N sends have recorded N identifiers reads, before
\* any cleanup takes them, those N identifiers in the order they were recorded.
C5_LedgerRoundTrip ==
    /\ pc \in {"gate", "clear"} =>
           [k \in 1..Len(LedgerIds) |-> ParseInt(LedgerIds[k])]
               = [k \in 1..Len(Outstanding) |-> Outstanding[k].id]
    /\ (pc = "deleting" /\ idx = 0) =>
           /\ [k \in 1..Len(message_ids) |-> ParseInt(message_ids[k])]
                  = [k \in 1..Len(Outstanding) |-> Outstanding[k].id]
           /\ \A k \in 1..Len(Outstanding) : Outstanding[k].run < run

\* a restarted process has read three or more identifiers, of one digit and of two
C5_Witness ==
    /\ pc = "deleting"
    /\ idx = 0
    /\ run > 1
    /\ Len(message_ids) >= 3
    /\ \E k \in 1..Len(message_ids) : Len(message_ids[k]) = 1
    /\ \E k \in 1..Len(message_ids) : Len(message_ids[k]) = 2

\* the startup of this run has just passed the cleanup gate
PastGate == pc = "summary"

\* C6: when a startup on a calendar date has passed the gate, every identifier an
\* earlier run recorded on an earlier date has been passed to
\* delete_telegram_message and is gone from the ledger, whether or not startups
\* that skipped the cleanup came in between.
C6_EarlierDatesDrained ==
    PastGate =>
        \A k \in 1..Len(recLog) :
            (recLog[k].run < run /\ recLog[k].day < gateLog[Len(gateLog)].day) =>
                /\ recLog[k].id \in Attempted
                /\ \A j \in 1..Len(LedgerIds) : ParseInt(LedgerIds[j]) # recLog[k].id

\* run 1 recorded on a date, run 2 started on that date and skipped the cleanup
\* and recorded too, run 3 started on the next date and is past the gate
C6_Witness ==
    /\ PastGate
    /\ Len(gateLog) = 3
    /\ gateLog[1].day = gateLog[2].day
    /\ ~gateLog[2].ran
    /\ gateLog[2].day < gateLog[3].day
    /\ \E k \in 1..Len(recLog) : recLog[k].run = 1 /\ recLog[k].day = gateLog[1].day
    /\ \E k \in 1..Len(recLog) : recLog[k].run = 2 /\ recLog[k].day = gateLog[2].day

Kinds(log) == {log[k].kind : k \in 1..Len(log)}

CountKind(log, kind) == Len(SelectSeq(log, LAMBDA e : e.kind = kind))

\* C10: a run that reached its deadline has sent the shutdown notice, once and as
\* its last message; a run ended by an interrupt has sent neither notice; a run
\* whose loop raised has sent the error notice, once and as its last message, and
\* is over; a run still going has sent neither notice.
C10_ExitNotices ==
    /\ exitKind = "deadline" =>
           /\ pc = "idle"
           /\ Len(runLog) > 0
           /\ runLog[Len(runLog)].kind = "shutdown"
           /\ CountKind(runLog, "shutdown") = 1
           /\ "error" \notin Kinds(runLog)
    /\ exitKind = "interrupt" =>
           /\ pc = "idle"
           /\ "shutdown" \notin Kinds(runLog)
           /\ "error" \notin Kinds(runLog)
    /\ exitKind = "error" =>
           /\ pc = "idle"
           /\ Len(runLog) > 0
           /\ runLog[Len(runLog)].kind = "error"
           /\ CountKind(runLog, "error") = 1
           /\ "shutdown" \notin Kinds(runLog)
    /\ exitKind = "none" =>
           /\ "shutdown" \notin Kinds(runLog)
           /\ "error" \notin Kinds(runLog)

\* three runs have ended, one in each way
C10_Witness ==
    /\ pc = "idle"
    /\ {exitLog[k] : k \in 1..Len(exitLog)} = {"deadline", "interrupt", "error"}

(***************************************************************************)
(* Properties of the drain (Spec).                                         *)
(***************************************************************************)
\* the identifiers this run's drain has passed to delete_telegram_message, in order
DrainCalls ==
    LET mine == SelectSeq(delLog, LAMBDA d : d.run = run)
    IN  [k \in 1..Len(mine) |-> mine[k].id]

\* the first n of message_ids, newest first
NewestFirst(n) == [k \in 1..n |-> message_ids[Len(message_ids) + 1 - k]]

\* the place in recLog at which the identifier written as text was recorded
RecordedAt(text) == CHOOSE k \in 1..Len(recLog) : recLog[k].id = ParseInt(text)

\* C16: a drain passes each identifier the ledger held at its start to
\* delete_telegram_message exactly once, the one recorded last first, and the ledger
\* is truncated only after the last of these calls.
C16_DrainNewestFirst ==
    /\ pc = "deleting" =>
           /\ DrainCalls = NewestFirst(idx)
           /\ ReadMessageIds(ledgerFile.data) = message_ids
           /\ \A k \in 1..Len(message_ids) :
                  \E r \in 1..Len(recLog) : recLog[r].id = ParseInt(message_ids[k])
           /\ \A j, k \in 1..Len(message_ids) :
                  j < k => RecordedAt(message_ids[j]) < RecordedAt(message_ids[k])
    /\ pc = "mark" =>
           /\ DrainCalls = NewestFirst(Len(message_ids))
           /\ idx = Len(message_ids)
           /\ ledgerFile.data = <<>>

\* a drain of three or more identifiers has ended, some deleted and some not
C16_Witness ==
    /\ pc = "mark"
    /\ Len(message_ids) >= 3
    /\ Len(DrainCalls) = Len(message_ids)
    /\ deleted_count > 0
    /\ failed_count > 0

(***************************************************************************)
(* Termination of a run (SpecTicksFair).                                   *)
(***************************************************************************)
\* the run is over: the loop was left at the deadline and main has returned
Terminated == pc = "idle" /\ exitKind = "deadline"

\* every tick so far began before the deadline; once the run is over, the shutdown
\* notice is its last message and was sent at or after the deadline
TicksBeforeDeadline ==
    /\ \A i \in 1..Len(runLog) :
           runLog[i].kind \in NotificationKinds => runLog[i].at < end_time
    /\ pc = "loop" => now - POLL_SECONDS < end_time
    /\ Terminated =>
           /\ runLog[Len(runLog)].kind = "shutdown"
           /\ runLog[Len(runLog)].at >= end_time
           /\ runLog[Len(runLog)].at = FirstTick + ticks * POLL_SECONDS
           /\ (ticks - 1) * POLL_SECONDS < RUN_SECONDS

\* C18: a run that is neither interrupted nor stopped by an error in its loop
\* comes to its end: no tick begins once the clock has reached the start plus 23.5
\* hours, the shutdown notice is sent after the last tick, and main returns.
C18_RunTerminates ==
    /\ []TicksBeforeDeadline
    /\ [][ticks' = ticks + 1 => now < end_time]_vars
    /\ <>Terminated

\* the run is over after ticks that filled the 23.5 hours
C18_Witness ==
    /\ Terminated
    /\ ticks * POLL_SECONDS >= RUN_SECONDS
    /\ runLog[Len(runLog)].kind = "shutdown"

(***************************************************************************)
(* Properties of ticks that are not 60 seconds apart (SpecDrift).          *)
(***************************************************************************)
\* the instant at which iteration n of the loop, counted from 0, is evaluated
DriftInstant(n) ==
    FirstTick + (IF n <= SlowTicks
                 THEN n * SlowPeriod
                 ELSE SlowTicks * SlowPeriod + (n - SlowTicks) * FastPeriod)

\* the iterations so far that were evaluated inside the window of (o, minutes)
TicksInWindow(o, minutes) ==
    {n \in 0..(ticks - 1) :
        /\ NotificationInstant(o, minutes) - WINDOW_SECONDS <= DriftInstant(n)
        /\ DriftInstant(n) <= NotificationInstant(o, minutes)}

\* two consecutive ticks more than 60 seconds apart passed over the window of
\* (o, minutes), and the notification was never sent
Missed(o, minutes) ==
    /\ Len(SentFor(o.name, o.start_utc3.utc, minutes)) = 0
    /\ \E n \in 0..(ticks - 2) :
           /\ DriftInstant(n) < NotificationInstant(o, minutes) - WINDOW_SECONDS
           /\ DriftInstant(n + 1) > NotificationInstant(o, minutes)
           /\ DriftInstant(n + 1) - DriftInstant(n) > POLL_SECONDS

\* two consecutive ticks less than 60 seconds apart both fell in the window of
\* (o, minutes), and the notification was sent twice
Doubled(o, minutes) ==
    /\ Len(SentFor(o.name, o.start_utc3.utc, minutes)) = 2
    /\ \E n \in 0..(ticks - 2) :
           /\ {n, n + 1} \subseteq TicksInWindow(o, minutes)
           /\ DriftInstant(n + 1) - DriftInstant(n) < POLL_SECONDS

\* C17: when ticks are not 60 seconds apart, a pair is sent once for every tick
\* that falls in its window, so that a window no tick falls in is missed and a
\* window two ticks fall in is answered twice; a run with ticks more than 60
\* seconds apart misses a pair and a run with ticks less than 60 seconds apart
\* sends a pair twice (the witness).
C17_SentOncePerTickInWindow ==
    Terminated =>
        \A o \in RunOccurrences, minutes \in Leads :
            Len(SentFor(o.name, o.start_utc3.utc, minutes))
                = Cardinality(TicksInWindow(o, minutes))

\* a finished run in which one pair was missed and another was sent twice
C17_Witness ==
    /\ Terminated
    /\ \E o \in RunOccurrences, minutes \in Leads : Missed(o, minutes)
    /\ \E o \in RunOccurrences, minutes \in Leads : Doubled(o, minutes)

(***************************************************************************)
(* Properties of a failed send in the polling loop (SpecLossy).            *)
(***************************************************************************)
\* entry j of runLog is a later call for the pair of entry i
SentAgain(i, j) ==
    /\ i < j
    /\ runLog[j].kind \in NotificationKinds
    /\ runLog[j].name = runLog[i].name
    /\ runLog[j].start = runLog[i].start
    /\ runLog[j].minutes = runLog[i].minutes

\* C14: when the send of a notification fails in a tick, send_telegram_message is
\* not called for that (occurrence, lead time) again, neither later in that tick
\* nor in the tick 60 seconds after it.
C14_FailedSendIsLost ==
    \A i \in 1..Len(runLog) :
        (runLog[i].kind \in NotificationKinds /\ ~runLog[i].ret) =>
            \A j \in 1..Len(runLog) :
                SentAgain(i, j) => runLog[j].at > runLog[i].at + POLL_SECONDS

\* the part of C14 about the failing tick itself: no second call within that tick
C14_NotAgainInTheSameTick ==
    \A i \in 1..Len(runLog) :
        (runLog[i].kind \in NotificationKinds /\ ~runLog[i].ret) =>
            \A j \in 1..Len(runLog) : SentAgain(i, j) => runLog[j].at # runLog[i].at

(***************************************************************************)
(* Properties under file faults and kills (SpecFaults).                    *)
(***************************************************************************)
StartupFaultKinds == {"read_marker", "read_ledger", "truncate_ledger", "write_marker"}

\* an error was raised in the cleanup block of this run's startup
FaultedStartup ==
    \E k \in 1..Len(faultLog) :
        faultLog[k].run = run /\ faultLog[k].kind \in StartupFaultKinds

\* this run was killed during its cleanup
KilledInCleanup ==
    \E k \in 1..Len(faultLog) : faultLog[k].run = run /\ faultLog[k].kind = "kill"

\* the startup message was sent first and the deadline was set: the loop was entered
EnteredLoop ==
    /\ Len(runLog) >= 1
    /\ runLog[1].kind = "startup"
    /\ end_time = runLog[1].at + RUN_SECONDS

\* C11: an error raised in the startup's cleanup block (reading the marker, reading
\* or truncating the ledger, writing the marker) does not end the process: the run
\* is over only when it was killed, and unless it was killed during the cleanup it
\* has sent the startup summary and entered the polling loop by then.
C11_StartupSurvivesCleanupErrors ==
    FaultedStartup =>
        /\ pc = "idle" => exitKind = "killed"
        /\ pc = "loop" => EnteredLoop
        /\ (pc = "idle" /\ ~KilledInCleanup) => EnteredLoop

\* a run whose startup could not read the marker is in its loop and has ticked
C11_Witness ==
    /\ pc = "loop"
    /\ ticks >= 1
    /\ EnteredLoop
    /\ \E k \in 1..Len(faultLog) :
           faultLog[k].run = run /\ faultLog[k].kind = "read_marker"

\* this step makes one call of send_telegram_message
OneSend == Len(runLog') = Len(runLog) + 1

\* the sendMessage request of that call is made and succeeds
TransportSucceeds == credentials /\ (calls + 1) \notin lossy

\* this step appends the identifier the provider assigns, and a newline, to the ledger
AppendsProviderId ==
    /\ ledgerFile'.exists
    /\ ledgerFile'.data = ledgerFile.data \o FormatInt(nextId) \o <<"\n">>

\* this step is an iteration of the polling loop, and the loop goes on after it
LoopGoesOn == ticks' = ticks + 1 => pc' = "loop"

\* C15 as stated: a send appends the identifier the provider assigned to the end of
\* the ledger exactly when the transport call succeeds; a failed send, missing
\* credentials included, leaves the ledger as it was and the loop running.
C15_AppendsIffSent ==
    [][OneSend =>
          /\ IF TransportSucceeds THEN AppendsProviderId ELSE ledgerFile' = ledgerFile
          /\ LoopGoesOn]_vars

\* C15: a send appends the identifier the provider assigned to the end of the
\* ledger exactly when the transport call succeeds and the identifier can be
\* stored; every other send, one that failed or was skipped for missing
\* credentials included, leaves the ledger as it was and the loop running.
C15_AppendsIffSentAndStored ==
    [][OneSend =>
          /\ IF TransportSucceeds /\ (calls + 1) \notin unstorable
             THEN AppendsProviderId
             ELSE ledgerFile' = ledgerFile
          /\ runLog'[Len(runLog')].ret = TransportSucceeds
          /\ LoopGoesOn]_vars

\* the first request failed and left no identifier; the two later sends, of two
\* runs, have their identifiers in the ledger one after the other
C15_Witness ==
    /\ lossy = {1}
    /\ run = 2
    /\ pc = "loop"
    /\ calls = 3
    /\ LedgerIds = <<FormatInt(FirstMessageId), FormatInt(FirstMessageId + 1)>>

\* C19: when the message_id of a sent message cannot be stored, the send is still
\* reported as successful, the ledger is left as it was, and the tick sends all
\* that is due in it and the loop goes on.
C19_StoreErrorKeepsSendAndTick ==
    [][(OneSend /\ TransportSucceeds /\ (calls + 1) \in unstorable) =>
          /\ runLog'[Len(runLog')].ret
          /\ ledgerFile' = ledgerFile
          /\ recLog' = recLog
          /\ nextId' = nextId + 1
          /\ ticks' = ticks + 1 =>
                 /\ pc' = "loop"
                 /\ Len(runLog') - Len(runLog) = Len(CheckAndSend(now))]_vars

\* the identifier of the first notification could not be stored: the send counts
\* as successful, the ledger holds the startup message's identifier only, and the
\* loop has gone on to its next tick
C19_Witness ==
    /\ unstorable = {2}
    /\ run = 1
    /\ pc = "loop"
    /\ ticks = 2
    /\ Len(runLog) = 2
    /\ runLog[2].kind \in NotificationKinds
    /\ runLog[2].ret
    /\ nextId = FirstMessageId + 2
    /\ LedgerIds = <<FormatInt(FirstMessageId)>>

\* C20: whenever the marker file holds today's date, the ledger holds no identifier
\* recorded before the startup that wrote that marker, also when startups are
\* killed during the cleanup and when reading or truncating the ledger fails.
C20_MarkerImpliesDrained ==
    (markerFile.exists /\ ReadMarker(markerFile) = IsoFormat(LocalToday(now))) =>
        \A k \in 1..Len(recLog) :
            recLog[k].run < markedBy =>
                \A j \in 1..Len(LedgerIds) : ParseInt(LedgerIds[j]) # recLog[k].id

(***************************************************************************)
(* A run and the identifiers it recorded itself (Spec).                    *)
(***************************************************************************)
\* main is in its cleanup block
InCleanup == pc \in {"gate", "clear", "deleting", "mark"}

\* the identifiers this run has recorded
OwnIds == {recLog[k].id : k \in {j \in 1..Len(recLog) : recLog[j].run = run}}

\* the identifiers the ledger file holds
HeldIds == {ParseInt(LedgerIds[j]) : j \in 1..Len(LedgerIds)}

\* C22: within one run the startup cleanup is over before the run's first send: in
\* the cleanup the run has sent and recorded nothing, every identifier passed to
\* delete_telegram_message was recorded by an earlier run than the one deleting
\* it, and every identifier a run recorded stands on a line of the ledger until a
\* later run starts.
C22_OwnIdsUntouched ==
    /\ InCleanup => (Len(runLog) = 0 /\ OwnIds = {})
    /\ \A d \in 1..Len(delLog) :
           LET id == ParseInt(delLog[d].id)
           IN  \A r \in 1..Len(recLog) :
                   recLog[r].id = id => recLog[r].run < delLog[d].run
    /\ LET held == LedgerIds
       IN  \A r \in 1..Len(recLog) :
               recLog[r].run = run =>
                   LET text == FormatInt(recLog[r].id)
                   IN  \E j \in 1..Len(held) : held[j] = text

\* a run that drained identifiers of an earlier run at its startup has since
\* recorded its startup summary and a notification, both still in the ledger
C22_Witness ==
    /\ run > 1
    /\ pc = "loop"
    /\ \E d \in 1..Len(delLog) : delLog[d].run = run
    /\ Cardinality(OwnIds) >= 2
    /\ HeldIds = OwnIds

====
